---- MODULE Spec2Model ----
(***************************************************************************)
(* A model of budget_script.py (class BudgetTracker): the three CSV        *)
(* adapters, the category mapping prompt, duplicate detection and          *)
(* resolution, the monthly aggregation and the budget tracking tab.        *)
(*                                                                         *)
(* Strings are TLA+ strings, handled as sequences of characters (Len,      *)
(* SubSeq, \o).  A Decimal is a record [c |-> coefficient, e |-> number of *)
(* fractional digits], standing for c * 10^(-e); a datetime is a record    *)
(* [year, month, day].  None is the string "None" (no cell of the inputs   *)
(* holds that text); the None of parse_date is the record NoneDate.        *)
(***************************************************************************)
EXTENDS Integers, Sequences, FiniteSets, TLC

----------------------------------------------------------------------------
(* Bounds of the model. *)

\* The three files together hold at most MaxRows rows.
MaxRows == 3

----------------------------------------------------------------------------
(* Python values and string methods. *)

None == "None"

Char(s, i) == SubSeq(s, i, i)

IsSpace(ch) == ch \in {" ", "\t"}

RECURSIVE lstrip(_)
lstrip(s) ==
    IF Len(s) > 0 /\ IsSpace(Char(s, 1)) THEN lstrip(SubSeq(s, 2, Len(s))) ELSE s

RECURSIVE rstrip(_)
rstrip(s) ==
    IF Len(s) > 0 /\ IsSpace(Char(s, Len(s))) THEN rstrip(SubSeq(s, 1, Len(s) - 1)) ELSE s

\* str.strip()
strip(s) == rstrip(lstrip(s))

LowerLetters == "abcdefghijklmnopqrstuvwxyz"

UpperLetters == "ABCDEFGHIJKLMNOPQRSTUVWXYZ"

UpperChar(ch) ==
    IF \E k \in 1..Len(LowerLetters) : Char(LowerLetters, k) = ch
    THEN LET k == CHOOSE k \in 1..Len(LowerLetters) : Char(LowerLetters, k) = ch
         IN  Char(UpperLetters, k)
    ELSE ch

RECURSIVE upper(_)
\* str.upper()
upper(s) ==
    IF Len(s) = 0 THEN s ELSE UpperChar(Char(s, 1)) \o upper(SubSeq(s, 2, Len(s)))

\* sub in s
contains(s, sub) ==
    \E i \in 1..(Len(s) - Len(sub) + 1) : SubSeq(s, i, i + Len(sub) - 1) = sub

RECURSIVE remove(_, _)
\* s.replace(ch, "") for a one-character ch
remove(s, ch) ==
    IF Len(s) = 0 THEN s
    ELSE IF Char(s, 1) = ch THEN remove(SubSeq(s, 2, Len(s)), ch)
         ELSE Char(s, 1) \o remove(SubSeq(s, 2, Len(s)), ch)

DigitChars == "0123456789"

IsDigit(ch) == \E k \in 1..Len(DigitChars) : Char(DigitChars, k) = ch

DigitVal(ch) == (CHOOSE k \in 1..Len(DigitChars) : Char(DigitChars, k) = ch) - 1

AllDigits(s) == \A i \in 1..Len(s) : IsDigit(Char(s, i))

RECURSIVE IntOf(_)
\* the number a string of digits writes ("" is 0)
IntOf(s) ==
    IF Len(s) = 0 THEN 0
    ELSE 10 * IntOf(SubSeq(s, 1, Len(s) - 1)) + DigitVal(Char(s, Len(s)))

\* dict.get(key, default)
Get(row, key, default) == IF key \in DOMAIN row THEN row[key] ELSE default

\* the truth value Python gives a string or None
Truthy(v) == v # None /\ v # ""

----------------------------------------------------------------------------
(* Decimal arithmetic (module decimal): exact, on [c, e] = c * 10^(-e). *)

RECURSIVE Pow10(_)
Pow10(n) == IF n = 0 THEN 1 ELSE 10 * Pow10(n - 1)

Max(a, b) == IF a >= b THEN a ELSE b

Abs(n) == IF n < 0 THEN -n ELSE n

\* Decimal('0')
DecZero == [c |-> 0, e |-> 0]

\* the coefficient of d at e fractional digits (e >= d.e)
Scaled(d, e) == d.c * Pow10(e - d.e)

\* Decimal.__eq__ (and the equality of Decimal dictionary keys): by value
DecEq(a, b) == Scaled(a, Max(a.e, b.e)) = Scaled(b, Max(a.e, b.e))

\* a > 0
DecPositive(a) == a.c > 0

\* -a
DecNeg(a) == [c |-> -a.c, e |-> a.e]

\* abs(a)
DecAbs(a) == [c |-> Abs(a.c), e |-> a.e]

\* a + b: exact, with the longer of the two fractions
DecAdd(a, b) ==
    LET e == Max(a.e, b.e) IN [c |-> Scaled(a, e) + Scaled(b, e), e |-> e]

\* a / n for a Decimal a and an int n > 0, kept as the exact quotient num / den of
\* Decimals' coefficients (Python rounds it to 28 significant digits).
DecDiv(a, n) == [num |-> a.c, e |-> a.e, den |-> n]

\* q - a for a quotient q and a Decimal a, as an exact quotient
QuotSub(q, a) ==
    LET e == Max(q.e, a.e)
    IN  [num |-> q.num * Pow10(e - q.e) - a.c * q.den * Pow10(e - a.e), e |-> e, den |-> q.den]

\* q >= 0 for a quotient q (den > 0)
QuotNonNegative(q) == q.num >= 0

----------------------------------------------------------------------------
(* parse_date and parse_amount. *)

\* the numeric strings Decimal() accepts, of the forms [sign] digits [. [digits]]
\* and [sign] . digits (exponents, NaN and Infinity are not written by the inputs
\* of this model)
IsDecimalLiteral(s) ==
    LET body == IF Len(s) > 0 /\ Char(s, 1) \in {"-", "+"} THEN SubSeq(s, 2, Len(s)) ELSE s
        dots == {i \in 1..Len(body) : Char(body, i) = "."}
    IN  /\ Cardinality(dots) <= 1
        /\ AllDigits(remove(body, "."))
        /\ Len(remove(body, ".")) > 0

\* Decimal(s) for a literal s
DecimalOf(s) ==
    LET neg  == Len(s) > 0 /\ Char(s, 1) = "-"
        body == IF Len(s) > 0 /\ Char(s, 1) \in {"-", "+"} THEN SubSeq(s, 2, Len(s)) ELSE s
        dots == {i \in 1..Len(body) : Char(body, i) = "."}
        frac == IF dots = {} THEN 0 ELSE Len(body) - (CHOOSE i \in dots : TRUE)
        mag  == IntOf(remove(body, "."))
    IN  [c |-> IF neg THEN -mag ELSE mag, e |-> frac]

\* parse_amount(amount_str): a value that is no string (None) or no number raises
\* inside the try, and the except returns Decimal("0")
parse_amount(amount_str) ==
    IF amount_str = None THEN DecZero
    ELSE LET clean == strip(remove(remove(amount_str, "$"), ","))
         IN  IF IsDecimalLiteral(clean) THEN DecimalOf(clean) ELSE DecZero

\* the None parse_date returns
NoneDate == [none |-> TRUE]

IsLeap(y) == (y % 4 = 0 /\ y % 100 # 0) \/ y % 400 = 0

DaysIn(m, y) ==
    IF m = 2 THEN (IF IsLeap(y) THEN 29 ELSE 28)
    ELSE IF m \in {4, 6, 9, 11} THEN 30 ELSE 31

\* datetime.strptime(s, "%m/%d/%Y"): one or two digits, "/", one or two digits, "/",
\* four digits, a date of the calendar
strptime(s) ==
    LET slashes == {i \in 1..Len(s) : Char(s, i) = "/"}
    IN  IF Cardinality(slashes) # 2 THEN NoneDate
        ELSE LET i1 == CHOOSE i \in slashes : \A j \in slashes : i <= j
                 i2 == CHOOSE i \in slashes : \A j \in slashes : i >= j
                 ms == SubSeq(s, 1, i1 - 1)
                 ds == SubSeq(s, i1 + 1, i2 - 1)
                 ys == SubSeq(s, i2 + 1, Len(s))
             IN  IF /\ Len(ms) \in {1, 2} /\ AllDigits(ms)
                    /\ Len(ds) \in {1, 2} /\ AllDigits(ds)
                    /\ Len(ys) = 4 /\ AllDigits(ys)
                    /\ IntOf(ms) \in 1..12
                    /\ IntOf(ys) >= 1
                    /\ IntOf(ds) \in 1..DaysIn(IntOf(ms), IntOf(ys))
                 THEN [year |-> IntOf(ys), month |-> IntOf(ms), day |-> IntOf(ds)]
                 ELSE NoneDate

\* parse_date(date_str): None when strptime raises
parse_date(date_str) == strptime(strip(date_str))

\* the order of datetimes, as a number
DateKey(d) == d.year * 10000 + d.month * 100 + d.day

\* n written with w digits, zero-padded
RECURSIVE Padded(_, _)
Padded(n, w) == IF w = 0 THEN "" ELSE Padded(n \div 10, w - 1) \o Char(DigitChars, (n % 10) + 1)

\* date.strftime('%Y-%m')
month_key(d) == Padded(d.year, 4) \o "-" \o Padded(d.month, 2)

----------------------------------------------------------------------------
(* The tables of __init__ and the inputs of a run. *)

\* self.standard_categories
standard_categories ==
    << "Health & Wellness", "Food & Drink", "Gas", "Travel", "Shopping", "Groceries",
       "Professional Services", "Gifts and Donations", "Personal", "Entertainment",
       "Bills & Utilities" >>

StandardSet == {standard_categories[i] : i \in 1..Len(standard_categories)}

\* self.discover_to_chase
discover_to_chase ==
    "Merchandise" :> "Shopping" @@ "Restaurants" :> "Food & Drink" @@
    "Supermarkets" :> "Groceries" @@ "Medical Services" :> "Health & Wellness" @@
    "Gasoline" :> "Gas" @@ "Education" :> "Professional Services" @@
    "Travel/ Entertainment" :> "Travel" @@ "Automotive" :> "Shopping" @@
    "Services" :> "Professional Services"

\* {}
EmptyMap == [k \in {} |-> ""]

\* the rows a Chase export may hold
ChaseRows ==
    { "Transaction Date" :> "11/03/2026" @@ "Description" :> "TARGET 00123" @@
      "Category" :> "Shopping" @@ "Type" :> "Sale" @@ "Amount" :> "-20.00",
      "Transaction Date" :> "10/05/2026" @@ "Description" :> "Ymca of Greater Richmond " @@
      "Category" :> "Personal" @@ "Type" :> "Sale" @@ "Amount" :> "-45.00",
      "Transaction Date" :> "10/20/2026" @@ "Description" :> "AUTOMATIC PAYMENT - THANK" @@
      "Category" :> "" @@ "Type" :> "Payment" @@ "Amount" :> "500.00",
      "Transaction Date" :> "10/06/2026" @@ "Description" :> "TARGET RETURN" @@
      "Category" :> "Shopping" @@ "Type" :> "Return" @@ "Amount" :> "20.00",
      "Transaction Date" :> "2026-10-07" @@ "Description" :> "SLING.COM" @@
      "Category" :> "Bills & Utilities" @@ "Type" :> "Sale" @@ "Amount" :> "-7.50" }

\* the rows a Discover export may hold
DiscoverRows ==
    { "Trans. Date" :> "10/07/2026" @@ "Description" :> "WALMART #123" @@
      "Amount" :> "45.00" @@ "Category" :> "Supermarkets",
      "Trans. Date" :> "11/01/2026" @@ "Description" :> "SHELL OIL 5744" @@
      "Amount" :> "20.00" @@ "Category" :> "Gasoline",
      "Trans. Date" :> "10/09/2026" @@ "Description" :> "CITY PARKING" @@
      "Amount" :> "7.50" @@ "Category" :> "Government Services",
      "Trans. Date" :> "10/21/2026" @@ "Description" :> "INTERNET PAYMENT - THANK YOU" @@
      "Amount" :> "-500.00" @@ "Category" :> "Payments and Credits" }

\* the rows a Vibrant export may hold
VibrantRows ==
    { "Effective Date" :> "09/15/2026" @@ "Description" :> "PAYROLL ACME" @@
      "Amount" :> "$2,500.00",
      "Effective Date" :> "11/03/2026" @@ "Description" :> "TRANSFER TO CHASE" @@
      "Amount" :> "-20.00",
      "Effective Date" :> "10/05/2026" @@ "Description" :> "CHECK 1021" @@
      "Amount" :> "N/A" }

\* a row of an export whose header line lacks the column
Without(row, header) == [k \in DOMAIN row \ {header} |-> row[k]]

\* rows of a Chase export with a category of its own spelling "Income"
ChaseOddRows ==
    { "Transaction Date" :> "11/02/2026" @@ "Description" :> "PAYROLL CORRECTION" @@
      "Category" :> "Income" @@ "Type" :> "Adjustment" @@ "Amount" :> "-30.00",
      "Transaction Date" :> "11/03/2026" @@ "Description" :> "TARGET 00123" @@
      "Category" :> "Shopping" @@ "Type" :> "Sale" @@ "Amount" :> "-20.00",
      "Transaction Date" :> "10/06/2026" @@ "Description" :> "TARGET RETURN" @@
      "Category" :> "Shopping" @@ "Type" :> "Return" @@ "Amount" :> "20.00" }

\* rows of a Discover export with other spellings of the payment category and an
\* amount of three fractional digits
DiscoverOddRows ==
    { "Trans. Date" :> "11/02/2026" @@ "Description" :> "CASHBACK BONUS REDEMPTION" @@
      "Amount" :> "-25.00" @@ "Category" :> "Payments & Credits",
      "Trans. Date" :> "10/21/2026" @@ "Description" :> "INTERNET PAYMENT - THANK YOU" @@
      "Amount" :> "-500.00" @@ "Category" :> " payments",
      "Trans. Date" :> "10/11/2026" @@ "Description" :> "SHELL OIL 5744" @@
      "Amount" :> "20.005" @@ "Category" :> "Gasoline",
      "Trans. Date" :> "13/01/2026" @@ "Description" :> "SHELL OIL 5744" @@
      "Amount" :> "18.00" @@ "Category" :> "Gasoline" }

\* the three files the operator may choose: the statements of an ordinary month, odd
\* rows, and exports whose header line lacks an expected column
Uploads ==
    { [chase |-> ChaseOddRows, discover |-> DiscoverOddRows, vibrant |-> VibrantRows],
      [chase    |-> {Without(row, "Transaction Date") : row \in ChaseRows},
       discover |-> {row \in DiscoverRows : row["Category"] = "Gasoline"},
       vibrant  |-> VibrantRows],
      [chase    |-> {row \in ChaseRows : row["Type"] = "Return"},
       discover |-> {Without(row, "Description") : row \in DiscoverRows},
       vibrant  |-> VibrantRows],
      [chase    |-> {row \in ChaseRows : row["Type"] = "Return"},
       discover |-> {Without(row, "Category") : row \in DiscoverRows},
       vibrant  |-> {row \in VibrantRows : row["Amount"] = "-20.00"}],
      [chase    |-> {Without(row, "Category") : row \in ChaseRows},
       discover |-> {row \in DiscoverRows : row["Category"] = "Gasoline"},
       vibrant  |-> {Without(row, "Amount") : row \in VibrantRows}] }

\* the budget_data directory of a first run: neither file is there
FirstRunDir ==
    [category_map_json |-> [exists |-> FALSE, data |-> EmptyMap], merchant_rules_json |-> << >>]

\* what the budget_data directory may hold when the run starts: category_map.json
\* as [exists, data], and the (key, category) pairs of merchant_rules.json in the
\* order of the document (none when the file is absent)
ConfigDirs ==
    { FirstRunDir,
      [category_map_json   |-> [exists |-> TRUE,
                                data |-> "Government Services" :> "Bills & Utilities"],
       merchant_rules_json |-> << <<"TARGET", "Groceries">> >>],
      [category_map_json   |-> [exists |-> TRUE, data |-> "Warehouse Clubs" :> "Groceries"],
       merchant_rules_json |-> << <<"TARGET", "Groceries">>, <<"WALMART", "Groceries">> >>] }

\* the radio buttons the operator may pick in the mapping dialog
OperatorChoices == {"Shopping", "Personal"}

\* the dates datetime.now() may return when the results are shown
Nows == { [year |-> 2026, month |-> 11, day |-> 4], [year |-> 2026, month |-> 12, day |-> 1] }

----------------------------------------------------------------------------
(* The adapters, row by row.  A transaction is the dict the adapter appends, *)
(* with one more field, id = <<source, n>> for the n-th row read in the run: *)
(* the identity of the dict object, which tells two equal rows apart.        *)

\* read_chase: the rows the loop passes over (continue)
ChaseSkips(row) ==
    \/ ~Truthy(Get(row, "Transaction Date", None))
    \/ upper(strip(Get(row, "Type", ""))) = "PAYMENT"
    \/ parse_date(row["Transaction Date"]) = NoneDate

\* read_chase: row['Description'], row['Category'] or row['Amount'] raises KeyError
ChaseRaises(row) ==
    ~ChaseSkips(row) /\ ~({"Description", "Category", "Amount"} \subseteq DOMAIN row)

\* read_chase: the keyword-based category overrides
ChaseCategory(description, category) ==
    IF contains(upper(description), "YMCA OF GREATER RICHMOND") THEN "Health & Wellness"
    ELSE IF contains(upper(description), "SLING.COM") THEN "Entertainment"
    ELSE IF contains(upper(description), "COLLEGE TRANSCRIPT") THEN "Professional Services"
    ELSE category

\* read_chase: the amount stored
ChaseAmount(row) == parse_amount(row["Amount"])

\* read_chase: the dict appended for a row that is not skipped
ChaseTransaction(row, n) ==
    [ source       |-> "Chase",
      date         |-> parse_date(row["Transaction Date"]),
      description  |-> strip(row["Description"]),
      category     |-> ChaseCategory(strip(row["Description"]), strip(row["Category"])),
      amount       |-> ChaseAmount(row),
      original_row |-> row,
      id           |-> <<"Chase", n>> ]

\* read_discover: the rows the loop passes over (continue)
DiscoverSkips(row) ==
    \/ ~Truthy(Get(row, "Trans. Date", None))
    \/ upper(strip(Get(row, "Category", ""))) \in {"PAYMENTS AND CREDITS", "PAYMENTS", "CREDITS"}
    \/ parse_date(row["Trans. Date"]) = NoneDate

\* read_discover: row['Description'] or row['Amount'] raises KeyError
DiscoverRaises(row) ==
    ~DiscoverSkips(row) /\ ~({"Description", "Amount"} \subseteq DOMAIN row)

\* read_discover without the sign flip
DiscoverAmountNoFlip(row) == parse_amount(row["Amount"])

\* read_discover: the amount stored, FLIP SIGN for Discover
DiscoverAmount(row) == DecNeg(parse_amount(row["Amount"]))

\* read_discover: the category before the mapping prompt: discover_to_chase, then
\* the Walmart override
DiscoverCategory(row) ==
    LET category == strip(Get(row, "Category", ""))
    IN  IF contains(upper(strip(row["Description"])), "WALMART") THEN "Groceries"
        ELSE Get(discover_to_chase, category, category)

\* read_discover: chase_category not in self.standard_categories
NeedsMapping(chase_category) == chase_category \notin StandardSet

\* read_discover: the dict appended, with the category the resolution gave
DiscoverTransaction(row, chase_category, n) ==
    [ source       |-> "Discover",
      date         |-> parse_date(row["Trans. Date"]),
      description  |-> strip(row["Description"]),
      category     |-> chase_category,
      amount       |-> DiscoverAmount(row),
      original_row |-> row,
      id           |-> <<"Discover", n>> ]

\* read_vibrant: the rows the loop passes over (continue)
VibrantSkips(row) ==
    \/ ~Truthy(Get(row, "Effective Date", None))
    \/ parse_date(row["Effective Date"]) = NoneDate

\* read_vibrant: row['Description'] or row['Amount'] raises KeyError
VibrantRaises(row) ==
    ~VibrantSkips(row) /\ ~({"Description", "Amount"} \subseteq DOMAIN row)

\* read_vibrant: the amount stored
VibrantAmount(row) == parse_amount(row["Amount"])

\* read_vibrant: the category, from the sign of the amount
VibrantCategory(amount) == IF DecPositive(amount) THEN "Income" ELSE "Bills & Utilities"

\* read_vibrant: the dict appended for a row that is not skipped
VibrantTransaction(row, n) ==
    [ source       |-> "Vibrant",
      date         |-> parse_date(row["Effective Date"]),
      description  |-> strip(row["Description"]),
      category     |-> VibrantCategory(VibrantAmount(row)),
      amount       |-> VibrantAmount(row),
      original_row |-> row,
      id           |-> <<"Vibrant", n>> ]

----------------------------------------------------------------------------
(* prompt_category_mapping. *)

\* prompt_category_mapping without its lookup of the map
NeverMapped(original_category, map) == FALSE

\* "Check if we've already mapped this"
AlreadyMapped(original_category, map) == original_category \in DOMAIN map

\* save_mapping that starts the map anew
save_mapping_replace(map, original_category, selected) ==
    [k \in {original_category} |-> selected]

\* save_mapping: self.category_map[original_category] = result[0]
save_mapping(map, original_category, selected) ==
    [k \in DOMAIN map \cup {original_category} |->
        IF k = original_category THEN selected ELSE map[k]]

\* return result[0] or current_mapping
PromptReturn(result, current_mapping) ==
    IF Truthy(result) THEN result ELSE current_mapping

----------------------------------------------------------------------------
(* find_duplicates, resolve_duplicates and the end of process_budget.       *)
(* Python's list indices 0..n-1 are the indices 1..n of a sequence here.    *)

RECURSIVE Ascending(_)
\* the numbers of a finite set, in increasing order
Ascending(S) ==
    IF S = {} THEN << >>
    ELSE LET m == CHOOSE x \in S : \A y \in S : x <= y
         IN  <<m>> \o Ascending(S \ {m})

\* the indices find_duplicates puts under one key: abs(amount), equal as Decimals
SameAbsAmount(txns, i) ==
    {j \in 1..Len(txns) : DecEq(DecAbs(txns[j].amount), DecAbs(txns[i].amount))}

\* len(trans_list) >= 1
IsDuplicateGroupOffByOne(group) == Cardinality(group) >= 1

\* len(trans_list) > 1
IsDuplicateGroup(group) == Cardinality(group) > 1

\* find_duplicates(transactions): the groups in the order their keys entered
\* amount_groups (the order of each key's first transaction), each a list of indices
find_duplicates(txns) ==
    LET firsts == {i \in 1..Len(txns) : \A j \in SameAbsAmount(txns, i) : i <= j}
        kept   == {i \in firsts : IsDuplicateGroup(SameAbsAmount(txns, i))}
        order  == Ascending(kept)
    IN  [g \in 1..Len(order) |-> Ascending(SameAbsAmount(txns, order[g]))]

\* save_selections that drops the checked boxes
save_selections_none(to_remove, checked) == to_remove

\* save_selections: every checked box's orig_idx joins indices_to_remove
save_selections(to_remove, checked) == to_remove \cup checked

\* the filter with its test inverted: if i in indices_to_remove
remove_duplicates_inverted(txns, to_remove) ==
    LET kept == Ascending({i \in 1..Len(txns) : i \in to_remove})
    IN  [k \in 1..Len(kept) |-> txns[kept[k]]]

\* [trans for i, trans in enumerate(all_transactions) if i not in indices_to_remove]
remove_duplicates(txns, to_remove) ==
    LET kept == Ascending({i \in 1..Len(txns) : i \notin to_remove})
    IN  [k \in 1..Len(kept) |-> txns[kept[k]]]

RECURSIVE InsertBeforeEqual(_, _)
\* an insertion that puts t before the elements of its own date: not stable
InsertBeforeEqual(s, t) ==
    IF Len(s) = 0 THEN <<t>>
    ELSE IF DateKey(s[Len(s)].date) < DateKey(t.date) THEN Append(s, t)
         ELSE Append(InsertBeforeEqual(SubSeq(s, 1, Len(s) - 1), t), s[Len(s)])

RECURSIVE InsertByDate(_, _)
\* t put into the date-sorted sequence s, after every element whose date is not later
InsertByDate(s, t) ==
    IF Len(s) = 0 THEN <<t>>
    ELSE IF DateKey(s[Len(s)].date) <= DateKey(t.date) THEN Append(s, t)
         ELSE Append(InsertByDate(SubSeq(s, 1, Len(s) - 1), t), s[Len(s)])

RECURSIVE sorted_by_date(_)
\* sorted(all_transactions, key=lambda x: x['date']): a stable sort
sorted_by_date(txns) ==
    IF Len(txns) = 0 THEN << >>
    ELSE InsertByDate(sorted_by_date(SubSeq(txns, 1, Len(txns) - 1)), txns[Len(txns)])

----------------------------------------------------------------------------
(* calculate_monthly_data. *)

\* the defaultdict's value for a month not seen yet
NewMonth == [income |-> DecZero, spending |-> EmptyMap, total_spending |-> DecZero]

\* trans['category'] == 'Income' or trans['amount'] > 0
CountsAsIncome(trans) == trans.category = "Income" \/ DecPositive(trans.amount)

\* the loop's pass with total_spending fed the signed amount
AddToMonthSigned(bucket, trans) ==
    IF trans.category = "Income" \/ trans.amount.c > 0
    THEN [bucket EXCEPT !.income = DecAdd(@, trans.amount)]
    ELSE [bucket EXCEPT
            !.spending = [c \in DOMAIN bucket.spending \cup {trans.category} |->
                            IF c = trans.category
                            THEN DecAdd(Get(bucket.spending, c, DecZero), DecAbs(trans.amount))
                            ELSE bucket.spending[c]],
            !.total_spending = DecAdd(@, trans.amount)]

\* one pass of the loop: trans added to its month's bucket
AddToMonth(bucket, trans) ==
    IF CountsAsIncome(trans)
    THEN [bucket EXCEPT !.income = DecAdd(@, trans.amount)]
    ELSE LET category == trans.category
             amount   == DecAbs(trans.amount)
             before   == Get(bucket.spending, category, DecZero)
         IN  [bucket EXCEPT
                !.spending = [c \in DOMAIN bucket.spending \cup {category} |->
                                IF c = category THEN DecAdd(before, amount)
                                ELSE bucket.spending[c]],
                !.total_spending = DecAdd(@, amount)]

RECURSIVE calculate_monthly_data(_)
\* calculate_monthly_data over self.transactions
calculate_monthly_data(txns) ==
    IF Len(txns) = 0 THEN [k \in {} |-> NewMonth]
    ELSE LET data  == calculate_monthly_data(SubSeq(txns, 1, Len(txns) - 1))
             trans == txns[Len(txns)]
             key   == month_key(trans.date)
         IN  [k \in DOMAIN data \cup {key} |->
                IF k = key THEN AddToMonth(Get(data, key, NewMonth), trans) ELSE data[k]]

----------------------------------------------------------------------------
(* show_results, create_summary_tab and create_budget_tracking_tab. *)

RECURSIVE SumOver(_, _, _)
\* sum(f[m][field] for m in months), from Decimal zero
SumOver(data, months, field) ==
    IF months = {} THEN DecZero
    ELSE LET m == CHOOSE x \in months : TRUE
         IN  DecAdd(SumOver(data, months \ {m}, field), data[m][field])

\* [k for k in monthly_data.keys() if k != current_month]
past_months(data, current_month) == {k \in DOMAIN data : k # current_month}

\* the guard left out
AlwaysHasHistory(past) == TRUE

\* if past_months: / if not past_months: ... else:
HasHistory(past) == past # {}

\* show_results: if current_month in monthly_data
HasCurrentMonth(data, current_month) == current_month \in DOMAIN data

\* category_budgets before the division: each category's spending over the past months
CategorySums(data, past) ==
    LET cats == UNION {DOMAIN data[m].spending : m \in past}
        RECURSIVE Total(_, _)
        Total(cat, months) ==
            IF months = {} THEN DecZero
            ELSE LET m == CHOOSE x \in months : TRUE
                 IN  DecAdd(Total(cat, months \ {m}), Get(data[m].spending, cat, DecZero))
    IN  [cat \in cats |-> Total(cat, past)]

\* the division by the number of the past months in which the category was spent on
CategoryBudgetPresentOnly(data, past, cat) ==
    DecDiv(CategorySums(data, past)[cat],
           Cardinality({m \in past : cat \in DOMAIN data[m].spending}))

\* category_budgets[cat] /= len(past_months)
CategoryBudget(data, past, cat) ==
    DecDiv(CategorySums(data, past)[cat], Cardinality(past))

\* category_budgets after the division
category_budgets(data, past) ==
    [cat \in DOMAIN CategorySums(data, past) |-> CategoryBudget(data, past, cat)]

\* create_budget_tracking_tab, the else branch: budget_data as it is written
budget_data(data, current_month, past) ==
    [ month            |-> current_month,
      avg_income       |-> DecDiv(SumOver(data, past, "income"), Cardinality(past)),
      category_budgets |-> category_budgets(data, past),
      actual_spending  |-> data[current_month].spending ]

\* create_budget_tracking_tab, the else branch: the frame shown for each category of
\* all_categories, with budget, actual, remaining and the colour of the remaining
category_frames(data, current_month, past) ==
    LET budgets          == category_budgets(data, past)
        current_spending == data[current_month].spending
        all_categories   == DOMAIN budgets \cup DOMAIN current_spending
    IN  [category \in all_categories |->
            LET budget    == Get(budgets, category, DecDiv(DecZero, 1))
                actual    == Get(current_spending, category, DecZero)
                remaining == QuotSub(budget, actual)
            IN  [ budget |-> budget, actual |-> actual, remaining |-> remaining,
                  remaining_color |-> IF QuotNonNegative(remaining) THEN "green"
                                      ELSE "red" ]]

\* the divisions create_summary_tab and create_budget_tracking_tab perform: two in
\* the summary (income, spending) when there are past months; in the budget tab one
\* for the income and one for each budgeted category
Divisors(data, current_month) ==
    LET past == past_months(data, current_month)
    IN  (IF HasHistory(past) THEN <<Cardinality(past), Cardinality(past)>> ELSE << >>)
        \o (IF HasCurrentMonth(data, current_month) /\ HasHistory(past)
            THEN [i \in 1..(1 + Cardinality(DOMAIN CategorySums(data, past))) |->
                     Cardinality(past)]
            ELSE << >>)

----------------------------------------------------------------------------
(* The state of a run of process_budget. *)

VARIABLES
    pc,                   \* where process_budget stands
    chase_file,           \* the export self.chase_file names: the rows it may hold
    discover_file,        \* the export self.discover_file names: the rows it may hold
    vibrant_file,         \* the export self.vibrant_file names: the rows it may hold
    rows_read,            \* the rows the csv readers have handed out so far
    category_map,         \* self.category_map
    category_map_file,    \* budget_data/category_map.json: [exists, data]
    merchant_rules,       \* self.merchant_rules, as loaded
    chase_trans,          \* read_chase's transactions
    discover_trans,       \* read_discover's transactions
    vibrant_trans,        \* read_vibrant's transactions
    dialog,               \* the open "Map Category" dialog, or NoDialog
    calls,                \* history: the calls of prompt_category_mapping
    combined,             \* history: all_transactions as combined (line 479)
    all_transactions,     \* all_transactions
    duplicate_groups,     \* find_duplicates' result
    group_num,            \* the group whose "Resolve Duplicates" dialog is open
    indices_to_remove,    \* resolve_duplicates' set
    operator_checked,     \* history: <<group, index>> for every box confirmed checked
    transactions,         \* self.transactions
    monthly_data,         \* calculate_monthly_data's result
    current_month,        \* datetime.now().strftime('%Y-%m') in show_results
    budget_tab,           \* what the "Current Month Budget" tab shows
    budget_frames,        \* the tab's frames, one for each category shown
    budget_tracking_json, \* <run_dir>/budget_tracking.json: [exists, data]
    divisions,            \* history: the divisors of the divisions performed
    error                 \* the exception process_budget caught, or None

vars ==
    << pc, chase_file, discover_file, vibrant_file, rows_read, category_map,
       category_map_file, merchant_rules, chase_trans, discover_trans, vibrant_trans, dialog, calls, combined, all_transactions,
       duplicate_groups, group_num, indices_to_remove, operator_checked, transactions,
       monthly_data, current_month, budget_tab, budget_frames, budget_tracking_json,
       divisions, error >>

NoDialog == [none |-> TRUE]

NoFile == [exists |-> FALSE, data |-> EmptyMap]

\* __init__: the configuration is loaded; the three files are chosen
Loaded(upload, dirs) ==
    /\ pc = "read_chase"
    /\ chase_file = upload.chase
    /\ discover_file = upload.discover
    /\ vibrant_file = upload.vibrant
    /\ rows_read = 0
    /\ \E dir \in dirs :
         /\ category_map_file = dir.category_map_json
         /\ category_map = dir.category_map_json.data
         /\ merchant_rules = dir.merchant_rules_json
    /\ chase_trans = << >>
    /\ discover_trans = << >>
    /\ vibrant_trans = << >>
    /\ dialog = NoDialog
    /\ calls = << >>
    /\ combined = << >>
    /\ all_transactions = << >>
    /\ duplicate_groups = << >>
    /\ group_num = 0
    /\ indices_to_remove = {}
    /\ operator_checked = {}
    /\ transactions = << >>
    /\ monthly_data = [k \in {} |-> NewMonth]
    /\ current_month = ""
    /\ budget_tab = "absent"
    /\ budget_frames = EmptyMap
    /\ budget_tracking_json = NoFile
    /\ divisions = << >>
    /\ error = None

\* the three statements of an ordinary month are chosen
Init ==
    Loaded([chase |-> ChaseRows, discover |-> DiscoverRows, vibrant |-> VibrantRows],
           ConfigDirs)

\* a first run, with any of the uploads chosen
InitUploads == \E upload \in Uploads : Loaded(upload, {FirstRunDir})

Files == << chase_file, discover_file, vibrant_file >>

ReadUnchanged ==
    UNCHANGED << Files, merchant_rules, combined, all_transactions, duplicate_groups,
                 group_num, indices_to_remove, operator_checked, transactions, monthly_data,
                 current_month, budget_tab, budget_frames, budget_tracking_json, divisions >>

\* read_chase: one pass of the loop over the reader
ReadChaseRow ==
    /\ pc = "read_chase"
    /\ rows_read < MaxRows
    /\ \E row \in chase_file :
         IF ChaseRaises(row)
         THEN /\ pc' = "error"
              /\ error' = "KeyError"
              /\ UNCHANGED chase_trans
         ELSE /\ chase_trans' = IF ChaseSkips(row) THEN chase_trans
                                ELSE Append(chase_trans, ChaseTransaction(row, rows_read + 1))
              /\ UNCHANGED << pc, error >>
    /\ rows_read' = rows_read + 1
    /\ UNCHANGED << category_map, category_map_file, discover_trans, vibrant_trans,
                    dialog, calls >>
    /\ ReadUnchanged

\* read_chase returns; read_discover opens its file
ChaseEOF ==
    /\ pc = "read_chase"
    /\ pc' = "read_discover"
    /\ UNCHANGED << rows_read, category_map, category_map_file, chase_trans,
                    discover_trans, vibrant_trans, dialog, calls, error >>
    /\ ReadUnchanged

\* read_discover: one pass of the loop, up to the append or to the mapping dialog
\* that prompt_category_mapping opens
ReadDiscoverRow ==
    /\ pc = "read_discover"
    /\ rows_read < MaxRows
    /\ rows_read' = rows_read + 1
    /\ \E row \in discover_file :
         LET category == strip(Get(row, "Category", ""))
             chase_category == DiscoverCategory(row)
         IN  IF DiscoverSkips(row)
             THEN UNCHANGED << pc, discover_trans, dialog, calls, error >>
             ELSE IF DiscoverRaises(row)
             THEN /\ pc' = "error"
                  /\ error' = "KeyError"
                  /\ UNCHANGED << discover_trans, dialog, calls >>
             ELSE IF ~NeedsMapping(chase_category)
             THEN /\ discover_trans' =
                       Append(discover_trans,
                              DiscoverTransaction(row, chase_category, rows_read + 1))
                  /\ UNCHANGED << pc, dialog, calls, error >>
             ELSE IF AlreadyMapped(category, category_map)
             THEN /\ discover_trans' =
                       Append(discover_trans,
                              DiscoverTransaction(row, category_map[category], rows_read + 1))
                  /\ calls' = Append(calls, [original_category |-> category,
                                             prompted |-> FALSE, saved |-> FALSE,
                                             result |-> category_map[category]])
                  /\ UNCHANGED << pc, dialog, error >>
             ELSE /\ pc' = "map_dialog"
                  /\ dialog' = [row |-> row, original_category |-> category,
                                current_mapping |-> chase_category, n |-> rows_read + 1]
                  /\ UNCHANGED << discover_trans, calls, error >>
    /\ UNCHANGED << category_map, category_map_file, chase_trans, vibrant_trans >>
    /\ ReadUnchanged

\* the operator presses "Save Mapping", with a radio button picked or with none
\* (selected then still holds current_mapping); the row is appended
SaveMapping ==
    /\ pc = "map_dialog"
    /\ \E selected \in OperatorChoices \cup {dialog.current_mapping} :
         /\ category_map' = save_mapping(category_map, dialog.original_category, selected)
         /\ category_map_file' = [exists |-> TRUE, data |-> category_map']
         /\ discover_trans' =
              Append(discover_trans,
                     DiscoverTransaction(dialog.row,
                                         PromptReturn(selected, dialog.current_mapping),
                                         dialog.n))
         /\ calls' = Append(calls, [original_category |-> dialog.original_category,
                                    prompted |-> TRUE, saved |-> TRUE,
                                    result |-> PromptReturn(selected, dialog.current_mapping)])
    /\ dialog' = NoDialog
    /\ pc' = "read_discover"
    /\ UNCHANGED << rows_read, chase_trans, vibrant_trans, error >>
    /\ ReadUnchanged

\* the operator closes the dialog's window: result[0] stays None
CloseMappingDialog ==
    /\ pc = "map_dialog"
    /\ discover_trans' =
         Append(discover_trans,
                DiscoverTransaction(dialog.row, PromptReturn(None, dialog.current_mapping),
                                    dialog.n))
    /\ calls' = Append(calls, [original_category |-> dialog.original_category,
                               prompted |-> TRUE, saved |-> FALSE,
                               result |-> PromptReturn(None, dialog.current_mapping)])
    /\ dialog' = NoDialog
    /\ pc' = "read_discover"
    /\ UNCHANGED << rows_read, category_map, category_map_file, chase_trans, vibrant_trans,
                    error >>
    /\ ReadUnchanged

\* read_discover returns; read_vibrant opens its file
DiscoverEOF ==
    /\ pc = "read_discover"
    /\ pc' = "read_vibrant"
    /\ UNCHANGED << rows_read, category_map, category_map_file, chase_trans,
                    discover_trans, vibrant_trans, dialog, calls, error >>
    /\ ReadUnchanged

\* read_vibrant: one pass of the loop over the reader
ReadVibrantRow ==
    /\ pc = "read_vibrant"
    /\ rows_read < MaxRows
    /\ \E row \in vibrant_file :
         IF VibrantRaises(row)
         THEN /\ pc' = "error"
              /\ error' = "KeyError"
              /\ UNCHANGED vibrant_trans
         ELSE /\ vibrant_trans' = IF VibrantSkips(row) THEN vibrant_trans
                                  ELSE Append(vibrant_trans,
                                              VibrantTransaction(row, rows_read + 1))
              /\ UNCHANGED << pc, error >>
    /\ rows_read' = rows_read + 1
    /\ UNCHANGED << category_map, category_map_file, chase_trans, discover_trans,
                    dialog, calls >>
    /\ ReadUnchanged

ResultVars ==
    << all_transactions, transactions, monthly_data, current_month, budget_tab,
       budget_frames, budget_tracking_json, divisions, error >>

\* process_budget from line 484 to its end, run once no dialog is left to wait for:
\* the duplicates are removed, self.transactions is the list sorted by date, the run
\* folder and transactions.csv are written, and show_results computes the monthly
\* data and makes the summary tab, the month tabs and, when the current month has
\* data, the budget tracking tab; a division by zero raises, and process_budget's
\* except shows the error
Complete(txns, groups, to_remove) ==
    LET kept   == IF Len(groups) > 0 THEN remove_duplicates(txns, to_remove) ELSE txns
        sorted == sorted_by_date(kept)
        data   == calculate_monthly_data(sorted)
    IN  /\ all_transactions' = kept
        /\ transactions' = sorted
        /\ monthly_data' = data
        /\ \E now \in Nows :
             LET cur  == month_key(now)
                 past == past_months(data, cur)
                 divs == Divisors(data, cur)
                 raised == \E i \in 1..Len(divs) : divs[i] = 0
             IN  /\ current_month' = cur
                 /\ divisions' = divs
                 /\ IF raised
                    THEN /\ error' = "ZeroDivisionError"
                         /\ pc' = "error"
                         /\ UNCHANGED << budget_tab, budget_frames, budget_tracking_json >>
                    ELSE /\ error' = None
                         /\ pc' = "done"
                         /\ IF ~HasCurrentMonth(data, cur)
                            THEN UNCHANGED << budget_tab, budget_frames,
                                              budget_tracking_json >>
                            ELSE IF ~HasHistory(past)
                            THEN /\ budget_tab' = "No historical data to create budget"
                                 /\ UNCHANGED << budget_frames, budget_tracking_json >>
                            ELSE /\ budget_tab' = "BUDGET vs ACTUAL BY CATEGORY"
                                 /\ budget_frames' = category_frames(data, cur, past)
                                 /\ budget_tracking_json' =
                                      [exists |-> TRUE,
                                       data |-> budget_data(data, cur, past)]

\* read_vibrant returns; the three lists are combined and find_duplicates runs; with
\* duplicate groups resolve_duplicates opens the first group's dialog, with none
\* process_budget runs to its end
FindDuplicates ==
    /\ pc = "read_vibrant"
    /\ LET txns   == chase_trans \o discover_trans \o vibrant_trans
           groups == find_duplicates(txns)
       IN  /\ combined' = txns
           /\ duplicate_groups' = groups
           /\ IF Len(groups) > 0
              THEN /\ pc' = "resolve_dialog"
                   /\ group_num' = 1
                   /\ all_transactions' = txns
                   /\ UNCHANGED << transactions, monthly_data, current_month, budget_tab,
                                   budget_frames, budget_tracking_json, divisions, error >>
              ELSE /\ group_num' = 0
                   /\ Complete(txns, groups, {})
    /\ UNCHANGED << Files, rows_read, category_map, category_map_file, merchant_rules,
                    chase_trans, discover_trans, vibrant_trans, dialog, calls,
                    indices_to_remove, operator_checked >>

\* what follows the dialog of group group_num: the next group's dialog, or
\* resolve_duplicates returns to_remove and process_budget runs to its end
AfterGroup(to_remove) ==
    IF group_num < Len(duplicate_groups)
    THEN /\ pc' = "resolve_dialog"
         /\ group_num' = group_num + 1
         /\ UNCHANGED ResultVars
    ELSE /\ group_num' = group_num
         /\ Complete(all_transactions, duplicate_groups, to_remove)

ResolveUnchanged ==
    UNCHANGED << Files, rows_read, category_map, category_map_file, merchant_rules,
                 chase_trans, discover_trans, vibrant_trans, dialog, calls, combined,
                 duplicate_groups >>

\* the operator checks some of the group's boxes (none, some or all) and presses
\* "Confirm": save_selections
ConfirmSelections ==
    /\ pc = "resolve_dialog"
    /\ \E checked \in SUBSET {duplicate_groups[group_num][k] :
                                k \in 1..Len(duplicate_groups[group_num])} :
         /\ indices_to_remove' = save_selections(indices_to_remove, checked)
         /\ operator_checked' = operator_checked \cup {<<group_num, i>> : i \in checked}
         /\ AfterGroup(save_selections(indices_to_remove, checked))
    /\ ResolveUnchanged

\* the operator closes the dialog's window: save_selections never runs
CloseDuplicateDialog ==
    /\ pc = "resolve_dialog"
    /\ AfterGroup(indices_to_remove)
    /\ UNCHANGED << indices_to_remove, operator_checked >>
    /\ ResolveUnchanged

Next ==
    \/ ReadChaseRow
    \/ ChaseEOF
    \/ ReadDiscoverRow
    \/ SaveMapping
    \/ CloseMappingDialog
    \/ DiscoverEOF
    \/ ReadVibrantRow
    \/ FindDuplicates
    \/ ConfirmSelections
    \/ CloseDuplicateDialog

Spec == Init /\ [][Next]_vars

SpecUploads == InitUploads /\ [][Next]_vars

----------------------------------------------------------------------------
(* Properties. *)

Range(seq) == {seq[i] : i \in 1..Len(seq)}

\* process_budget is past line 492: self.transactions is set
Reconciled == pc \in {"done", "error"}

\* the place of the transaction with identity id in self.transactions (0: absent)
PlaceOf(id) ==
    IF \E k \in 1..Len(transactions) : transactions[k].id = id
    THEN CHOOSE k \in 1..Len(transactions) : transactions[k].id = id
    ELSE 0

\* the pairs i < j of the combined list whose amounts match (equal absolute value)
MatchingPairs ==
    {p \in (1..Len(combined)) \X (1..Len(combined)) :
        /\ p[1] < p[2]
        /\ Abs(combined[p[1]].amount.c) * Pow10(combined[p[2]].amount.e)
             = Abs(combined[p[2]].amount.c) * Pow10(combined[p[1]].amount.e)}

\* C1: every transaction an adapter stored carries the canonical sign: read_discover
\* stores the negation of the parsed raw amount (a raw positive amount, spending, is
\* stored negative), read_chase and read_vibrant store the parsed raw amount as it is.
C1_CanonicalSign ==
    /\ \A t \in Range(discover_trans) :
         LET raw == parse_amount(t.original_row["Amount"])
         IN  /\ t.amount.c = -(raw.c)
             /\ t.amount.e = raw.e
             /\ raw.c > 0 => t.amount.c < 0
    /\ \A t \in Range(chase_trans) \cup Range(vibrant_trans) :
         t.amount = parse_amount(t.original_row["Amount"])

C1_Witness ==
    /\ \E t \in Range(discover_trans) : t.amount.c < 0
    /\ \E t \in Range(chase_trans) : t.amount.c < 0
    /\ \E t \in Range(vibrant_trans) : t.amount.c > 0

RECURSIVE SpendingSum(_, _)
\* the sum of the values of a spending dict over the categories cats
SpendingSum(spending, cats) ==
    IF cats = {} THEN DecZero
    ELSE LET c == CHOOSE x \in cats : TRUE
         IN  DecAdd(SpendingSum(spending, cats \ {c}), spending[c])

\* C2: in every month bucket of calculate_monthly_data the per-category spending
\* values add up to the bucket's total_spending, exactly.
C2_CategorySumIsTotal ==
    \A m \in DOMAIN monthly_data :
        DecEq(SpendingSum(monthly_data[m].spending, DOMAIN monthly_data[m].spending),
              monthly_data[m].total_spending)

C2_Witness ==
    \E m \in DOMAIN monthly_data :
        /\ Cardinality(DOMAIN monthly_data[m].spending) >= 2
        /\ \A c \in DOMAIN monthly_data[m].spending : monthly_data[m].spending[c].c > 0

\* C3 as stated: with no two amounts matching, nothing is removed, nothing is asked,
\* and in the resulting list the transactions of one source stand in the order of
\* that source's adapter output.
C3_Original ==
    (Reconciled /\ MatchingPairs = {}) =>
        /\ Len(duplicate_groups) = 0 /\ operator_checked = {}
        /\ Len(transactions) = Len(combined)
        /\ \A i, j \in 1..Len(combined) :
             (i < j /\ combined[i].source = combined[j].source) =>
                 (PlaceOf(combined[i].id) > 0
                  /\ PlaceOf(combined[i].id) < PlaceOf(combined[j].id))

\* C3 amended: with no two amounts matching, nothing is removed and nothing is asked;
\* the reconciled list is the untouched union in adapter order, and self.transactions
\* is that union sorted by date, stably: two transactions keep their order unless the
\* first one's date is the later.
C3_UnionSortedByDate ==
    (Reconciled /\ MatchingPairs = {}) =>
        /\ Len(duplicate_groups) = 0 /\ operator_checked = {}
        /\ all_transactions = combined
        /\ all_transactions = chase_trans \o discover_trans \o vibrant_trans
        /\ Len(transactions) = Len(combined)
        /\ \A k \in 1..Len(combined) : PlaceOf(combined[k].id) > 0
        /\ \A k \in 1..Len(combined) : transactions[PlaceOf(combined[k].id)] = combined[k]
        /\ \A k \in 1..(Len(transactions) - 1) :
             DateKey(transactions[k].date) <= DateKey(transactions[k + 1].date)
        /\ \A i, j \in 1..Len(combined) :
             (i < j /\ DateKey(combined[i].date) <= DateKey(combined[j].date)) =>
                 PlaceOf(combined[i].id) < PlaceOf(combined[j].id)

C3_Witness ==
    /\ pc = "done" /\ MatchingPairs = {}
    /\ \E i, j \in 1..Len(combined) :
         /\ i < j /\ combined[i].source = combined[j].source
         /\ DateKey(combined[i].date) > DateKey(combined[j].date)
    /\ \E i, j \in 1..Len(combined) :
         i < j /\ DateKey(combined[i].date) = DateKey(combined[j].date)

\* exactly one pair matches and the operator confirmed exactly one box of it checked
OnePairOneChecked ==
    /\ Reconciled
    /\ Cardinality(MatchingPairs) = 1
    /\ Cardinality(operator_checked) = 1
    /\ \A p \in MatchingPairs : \A c \in operator_checked : c[2] \in {p[1], p[2]}

\* C4: with exactly one matching pair of which the operator keeps one (checks the
\* other), the result holds the kept transaction, not the other one, and every other
\* transaction of the input.
C4_OnePairKeepOne ==
    OnePairOneChecked =>
        \A c \in operator_checked :
            /\ combined[c[2]] \notin Range(transactions)
            /\ \A i \in 1..Len(combined) :
                 i # c[2] => combined[i] \in Range(transactions)
            /\ Len(transactions) = Len(combined) - 1

C4_Witness ==
    /\ OnePairOneChecked
    /\ Len(combined) = 3
    /\ \E p \in MatchingPairs : \E c \in operator_checked :
         /\ c[2] = p[1]
         /\ combined[p[1]].source = "Chase" /\ combined[p[2]].source = "Vibrant"
         /\ combined[p[2]] \in Range(transactions)

\* C5: a transaction is missing from the reconciled list only if its amount matches
\* another transaction's and the operator checked its box in its group's dialog; a
\* transaction that matches no other is in the list, unchanged.
C5_RemovedOnlyByOperator ==
    Reconciled =>
        /\ \A i \in 1..Len(combined) :
             combined[i] \notin Range(transactions) =>
                 /\ \E p \in MatchingPairs : i \in {p[1], p[2]}
                 /\ \E c \in operator_checked :
                      /\ c[2] = i
                      /\ c[1] \in 1..Len(duplicate_groups)
                      /\ i \in Range(duplicate_groups[c[1]])
        /\ \A t \in Range(transactions) : t \in Range(combined)
        /\ Len(transactions) <= Len(combined)

C5_Witness ==
    /\ pc = "done"
    /\ \E i, j \in 1..Len(combined) :
         /\ combined[i] \notin Range(transactions)
         /\ combined[j] \in Range(transactions)
         /\ \A p \in MatchingPairs : j \notin {p[1], p[2]}

\* the groups of exactly two transactions that were presented to the operator
PairGroups == {g \in 1..Len(duplicate_groups) : Len(duplicate_groups[g]) = 2}

\* how many members of group g are in self.transactions
Remaining(g) ==
    Cardinality({k \in 1..Len(duplicate_groups[g]) :
                    combined[duplicate_groups[g][k]] \in Range(transactions)})

\* C6 as stated: of every pair presented to the operator exactly one transaction
\* remains, whatever the operator does in the dialog.
C6_Original ==
    Reconciled => \A g \in PairGroups : Remaining(g) = 1

\* C6 amended: the pair's dialog is two checkboxes: the members the operator confirmed
\* checked are gone and the others remain, so exactly one remains if and only if the
\* operator checked exactly one box (both remain with none checked or the window
\* closed, none remains with both checked).
C6_UncheckedRemain ==
    Reconciled =>
        \A g \in PairGroups :
            /\ \A k \in 1..2 :
                 combined[duplicate_groups[g][k]] \in Range(transactions)
                     <=> <<g, duplicate_groups[g][k]>> \notin operator_checked
            /\ Remaining(g) = 1
                 <=> Cardinality({c \in operator_checked : c[1] = g}) = 1

C6_Witness ==
    /\ pc = "done"
    /\ \E g \in PairGroups :
         /\ Remaining(g) = 0
         /\ Cardinality({c \in operator_checked : c[1] = g}) = 2
    /\ Len(transactions) = 1

\* the category the first merchant rule whose key is in the uppercased description
\* forces, or None
ForcedCategory(description) ==
    LET hits == {r \in 1..Len(merchant_rules) :
                    contains(upper(description), merchant_rules[r][1])}
    IN  IF hits = {} THEN None
        ELSE merchant_rules[CHOOSE r \in hits : \A q \in hits : r <= q][2]

\* C7: every transaction whose uppercased description contains the key of a rule of
\* the persisted merchant rules has that rule's forced category (the first match).
C7_MerchantRuleForcesCategory ==
    \A t \in Range(chase_trans) \cup Range(discover_trans) \cup Range(vibrant_trans) :
        ForcedCategory(t.description) # None => t.category = ForcedCategory(t.description)

\* C8 as stated: two resolutions of one raw category give the same category, and a
\* raw category that went through the prompt once is not prompted for again.
C8_Original ==
    \A i, j \in 1..Len(calls) :
        (i < j /\ calls[i].original_category = calls[j].original_category) =>
            /\ calls[j].result = calls[i].result
            /\ calls[i].prompted => ~calls[j].prompted

\* C8 amended: once a raw category is in category_map (it was there already, or the
\* operator pressed "Save Mapping" for it), every later resolution of it in the run
\* gives the same category and opens no prompt; a prompt that was closed without
\* saving leaves the category unmapped, and its next resolution prompts again.
C8_IdempotentOnceMapped ==
    /\ \A i, j \in 1..Len(calls) :
         (/\ i < j
          /\ calls[i].original_category = calls[j].original_category
          /\ (calls[i].saved \/ ~calls[i].prompted)) =>
             /\ calls[j].result = calls[i].result
             /\ ~calls[j].prompted
    /\ \A i \in 1..(Len(calls) - 1) :
         (/\ calls[i].prompted /\ ~calls[i].saved
          /\ calls[i + 1].original_category = calls[i].original_category) =>
             calls[i + 1].prompted

C8_Witness ==
    /\ \E i, j \in 1..Len(calls) :
         /\ i < j /\ calls[i].original_category = calls[j].original_category
         /\ calls[i].prompted /\ calls[i].saved /\ ~calls[j].prompted
    /\ Len(calls) = 2

\* C9: category_map only grows: a step removes no key and changes no key's value; a
\* step in which the operator saves a mapping adds the raw category as a new key and
\* leaves category_map.json equal to the map in memory.
C9_MapOnlyGrows ==
    [][ /\ \A k \in DOMAIN category_map :
             k \in DOMAIN category_map' /\ category_map'[k] = category_map[k]
        /\ (Len(calls') > Len(calls) /\ calls'[Len(calls')].saved) =>
             /\ calls'[Len(calls')].original_category \notin DOMAIN category_map
             /\ calls'[Len(calls')].original_category \in DOMAIN category_map'
             /\ category_map_file'.exists
             /\ category_map_file'.data = category_map'
        /\ category_map' # category_map =>
             (Len(calls') > Len(calls) /\ calls'[Len(calls')].saved) ]_vars

C9_Witness ==
    /\ Len(calls) > 0 /\ calls[Len(calls)].saved
    /\ Cardinality(DOMAIN category_map) = 2
    /\ category_map_file = [exists |-> TRUE, data |-> category_map]

\* show_results has run
Shown == pc \in {"done", "error"}

\* C10: with no month other than the current one, no budget is computed: no division
\* is performed, nothing raises, budget_tracking.json is not written, and the budget
\* tab (made when the current month has data) reports the missing history; the budget
\* file is written only when the current month has data and a past month exists.
C10_NoHistoryNoBudget ==
    Shown =>
        /\ (DOMAIN monthly_data \ {current_month} = {}) =>
             /\ error = None
             /\ divisions = << >>
             /\ ~budget_tracking_json.exists
             /\ budget_tab # "BUDGET vs ACTUAL BY CATEGORY"
             /\ current_month \in DOMAIN monthly_data =>
                  budget_tab = "No historical data to create budget"
        /\ budget_tracking_json.exists <=>
             /\ current_month \in DOMAIN monthly_data
             /\ DOMAIN monthly_data \ {current_month} # {}
        /\ \A i \in 1..Len(divisions) : divisions[i] > 0

C10_Witness ==
    /\ pc = "done"
    /\ current_month \in DOMAIN monthly_data
    /\ DOMAIN monthly_data \ {current_month} = {}
    /\ budget_tab = "No historical data to create budget"

----------------------------------------------------------------------------
(* C11. *)

\* the four spellings of the payment category, upper-cased
PaymentSpellings ==
    {"PAYMENTS & CREDITS", "PAYMENTS AND CREDITS", "PAYMENTS", "CREDITS"}

\* the row's Discover category is one of the payment spellings, whatever its case
IsPaymentCategory(row) == upper(strip(Get(row, "Category", ""))) \in PaymentSpellings

\* C11: read_discover drops every row whose category is, case-insensitively, one of
\* "Payments & Credits", "Payments and Credits", "Payments", "Credits": no transaction of
\* read_discover comes from such a row, and every other row whose date parses is not
\* passed over by the loop
C11_PaymentRowsDropped ==
    /\ \A i \in 1..Len(discover_trans) : ~IsPaymentCategory(discover_trans[i].original_row)
    /\ \A row \in discover_file :
         (~IsPaymentCategory(row) /\ Truthy(Get(row, "Trans. Date", None))
            /\ parse_date(Get(row, "Trans. Date", "")) # NoneDate) => ~DiscoverSkips(row)

----------------------------------------------------------------------------
(* C12. *)

RECURSIVE AmountSum(_)
\* the sum of the amounts of self.transactions at the places given
AmountSum(places) ==
    IF places = {} THEN DecZero
    ELSE LET k == CHOOSE x \in places : TRUE
         IN  DecAdd(AmountSum(places \ {k}), transactions[k].amount)

\* the places in self.transactions of the month's transactions
PlacesOfMonth(m) == {k \in 1..Len(transactions) : month_key(transactions[k].date) = m}

\* C12: in calculate_monthly_data a month's income is the sum of the amounts of the
\* month's transactions with amount > 0, and its spending for a category is the sum of
\* the absolute amounts of the month's transactions with amount < 0 in that category:
\* the sign of the amount alone decides between income and spending.
C12_SignDecidesIncome ==
    pc = "done" =>
        \A m \in DOMAIN monthly_data :
            LET month == PlacesOfMonth(m)
                cats  == {transactions[k].category : k \in month}
                            \cup DOMAIN monthly_data[m].spending
            IN  /\ DecEq(monthly_data[m].income,
                         AmountSum({k \in month : transactions[k].amount.c > 0}))
                /\ \A cat \in cats :
                      DecEq(Get(monthly_data[m].spending, cat, DecZero),
                            DecNeg(AmountSum({k \in month :
                                                /\ transactions[k].category = cat
                                                /\ transactions[k].amount.c < 0})))

----------------------------------------------------------------------------
(* C13. *)

RECURSIVE PastSpending(_, _)
\* the category's spending over the months given, a month without it adding zero
PastSpending(cat, months) ==
    IF months = {} THEN DecZero
    ELSE LET m == CHOOSE x \in months : TRUE
         IN  DecAdd(PastSpending(cat, months \ {m}),
                    IF cat \in DOMAIN monthly_data[m].spending
                    THEN monthly_data[m].spending[cat] ELSE DecZero)

\* the quotient q is the Decimal d divided by n
QuotIs(q, d, n) ==
    LET e == Max(q.e, d.e)
    IN  q.num * Pow10(e - q.e) * n = d.c * Pow10(e - d.e) * q.den

\* the budget tab was built with past months at hand
BudgetShown == pc = "done" /\ budget_tab = "BUDGET vs ACTUAL BY CATEGORY"

\* C13: with at least one past month, the budget of each category is the sum of the
\* category's spending over all the past months divided by the number of all the past
\* months (a past month without the category adds zero and still counts), and the
\* remaining value shown is that average minus the current month's actual spending in
\* the category (zero if absent), negative (shown red) exactly when over budget.
C13_AverageBudgetAndRemaining ==
    BudgetShown =>
        LET past    == DOMAIN monthly_data \ {current_month}
            n       == Cardinality(past)
            current == monthly_data[current_month].spending
            written == budget_tracking_json.data.category_budgets
        IN  /\ n >= 1
            /\ DOMAIN budget_frames =
                  UNION {DOMAIN monthly_data[m].spending : m \in DOMAIN monthly_data}
            /\ DOMAIN written = UNION {DOMAIN monthly_data[m].spending : m \in past}
            /\ \A cat \in DOMAIN written : written[cat] = budget_frames[cat].budget
            /\ \A cat \in DOMAIN budget_frames :
                  LET frame  == budget_frames[cat]
                      total  == PastSpending(cat, past)
                      actual == IF cat \in DOMAIN current THEN current[cat] ELSE DecZero
                      e      == Max(total.e, actual.e)
                  IN  /\ QuotIs(frame.budget, total, n)
                      /\ DecEq(frame.actual, actual)
                      /\ QuotIs(frame.remaining,
                                [c |-> Scaled(total, e) - n * Scaled(actual, e), e |-> e], n)
                      /\ frame.remaining_color = "red"
                            <=> Scaled(total, e) < n * Scaled(actual, e)

\* two past months, a category spent on in only one of them, a category over budget
\* and a category with nothing spent in the current month
C13_Witness ==
    /\ BudgetShown
    /\ Cardinality(DOMAIN monthly_data \ {current_month}) = 2
    /\ \E cat \in DOMAIN budget_frames :
         /\ budget_frames[cat].budget.num > 0
         /\ \E m \in DOMAIN monthly_data \ {current_month} :
              cat \notin DOMAIN monthly_data[m].spending
         /\ cat \notin DOMAIN monthly_data[current_month].spending
    /\ \E cat \in DOMAIN budget_frames : budget_frames[cat].remaining_color = "red"

----------------------------------------------------------------------------
(* C14. *)

\* the counts the windows have shown the operator so far: the number of duplicate
\* groups in the title of each "Resolve Duplicates" dialog, and the number of past
\* months in the summary tab
CountsReported ==
    (IF group_num >= 1
     THEN {[of |-> "duplicate groups", value |-> Len(duplicate_groups)]} ELSE {})
    \cup
    (IF pc = "done" /\ HasHistory(past_months(monthly_data, current_month))
     THEN {[of |-> "past months",
            value |-> Cardinality(past_months(monthly_data, current_month))]}
     ELSE {})

\* the rows read that are not in self.transactions: passed over by an adapter or
\* removed as duplicates
RowsDropped == rows_read - Len(transactions)

\* what a count of dropped rows would be a count of
DroppedKinds == {"rows skipped", "payments filtered", "duplicates removed", "rows dropped"}

\* C14: every input row that does not become a transaction of the output (skipped for
\* a missing or unparseable date, filtered as a payment, removed as a duplicate) is
\* accounted for in a count reported to the operator: no run ends with rows dropped
\* and no count of them reported.
C14_DroppedRowsCounted ==
    (pc = "done" /\ RowsDropped > 0) => \E count \in CountsReported : count.of \in DroppedKinds

----------------------------------------------------------------------------
(* C15. *)

\* the header line of the export lacks one of the columns expected
Lacks(file, expected) == \E row \in file : ~(expected \subseteq DOMAIN row)

ChaseLacks == Lacks(chase_file, {"Transaction Date", "Description", "Category", "Amount"})

DiscoverLacks == Lacks(discover_file, {"Trans. Date", "Description", "Category", "Amount"})

VibrantLacks == Lacks(vibrant_file, {"Effective Date", "Description", "Amount"})

\* C15: if a source file lacks an expected column header (the issuer's date,
\* description, category or amount column), none of that file's rows are imported and
\* the run never completes with outputs written: it does not get past the loading of
\* that file other than into the error shown to the operator.
C15_MissingHeaderFails ==
    /\ ChaseLacks => chase_trans = << >>
    /\ DiscoverLacks => discover_trans = << >> /\ dialog = NoDialog
    /\ VibrantLacks => vibrant_trans = << >>
    /\ (ChaseLacks \/ DiscoverLacks \/ VibrantLacks) => pc # "done"

----------------------------------------------------------------------------
(* C16. *)

\* the raw amount is a string parse_amount accepts: Decimal(clean) does not raise
Accepted(amount_str) == IsDecimalLiteral(strip(remove(remove(amount_str, "$"), ",")))

\* the issuer's date column
DateColumn(source) ==
    IF source = "Chase" THEN "Transaction Date"
    ELSE IF source = "Discover" THEN "Trans. Date" ELSE "Effective Date"

\* C16: every transaction an adapter produced from a raw amount that parse_amount
\* accepts has an amount of exactly two decimal places, whatever the number of
\* fractional digits of the raw string, and no transaction comes from a row whose date
\* string does not parse as MM/DD/YYYY.
C16_TwoPlacesAndParsedDate ==
    \A t \in Range(chase_trans) \cup Range(discover_trans) \cup Range(vibrant_trans) :
        /\ Accepted(t.original_row["Amount"]) => t.amount.e = 2
        /\ parse_date(t.original_row[DateColumn(t.source)]) # NoneDate
        /\ t.date = parse_date(t.original_row[DateColumn(t.source)])

====
